---------------------------- MODULE Spec2Model ----------------------------
(***************************************************************************)
(* parse_errors of knct.py: a single left-to-right scan of error_sentence  *)
(* with the pattern <(e\d+)>(.*?)</\1>, which strips the error tags and    *)
(* records, for every tag, the span of its text in the stripped sentence.  *)
(*                                                                         *)
(* A string is a sequence of one-character strings.  Offsets are Python's  *)
(* (0-based, half-open), so s[i] is At(s, i) and s[a:b] is Slice(s, a, b). *)
(***************************************************************************)
EXTENDS Integers, Sequences, FiniteSets

VARIABLES
    sentence,      \* entry.error_sentence
    error_type,    \* entry.error_type
    pc,            \* "loop": in the for loop; "done": returned; "raised": KeyError
    pos,           \* offset finditer searches its next match from
    ms,            \* the match objects finditer has yielded so far
    last_index,
    clean_index,
    clean_parts,
    errors,
    result,        \* <<>> until the return; then <<clean_text, errors>>
    exc            \* <<>>, or the key of the KeyError that left the call

vars == <<sentence, error_type, pc, pos, ms, last_index, clean_index,
          clean_parts, errors, result, exc>>

-----------------------------------------------------------------------------
(* Strings *)

At(s, i) == s[i + 1]

Slice(s, a, b) == SubSeq(s, a + 1, b)

HasAt(s, k, lit) ==
    /\ k + Len(lit) <= Len(s)
    /\ \A q \in 1..Len(lit) : s[k + q] = lit[q]

RECURSIVE join(_)
join(parts) ==
    IF parts = <<>> THEN <<>> ELSE Head(parts) \o join(Tail(parts))

-----------------------------------------------------------------------------
(* The pattern <(e\d+)>(.*?)</\1> and its leftmost matches *)

\* \d, on the ASCII digits the inputs are written with
Digits == {"0", "1", "2", "3", "4", "5", "6", "7", "8", "9"}

TagLetter == "e"

\* . without DOTALL: any character but the line feed
Dot(c) == c # "\n"

\* \d : one digit only
DigitsEnd_one(s, i) ==
    IF i < Len(s) /\ At(s, i) \in Digits THEN i + 1 ELSE i

\* \d+ (greedy) from offset i: the offset after the last digit of the run
RECURSIVE DigitsEnd(_, _)
DigitsEnd(s, i) ==
    IF i < Len(s) /\ At(s, i) \in Digits THEN DigitsEnd(s, i + 1) ELSE i

\* <(e\d+)> at offset i: the offset after its '>', or -1
OpenEnd(s, i) ==
    IF i + 1 < Len(s) /\ At(s, i) = "<" /\ At(s, i + 1) = TagLetter
    THEN LET d == DigitsEnd(s, i + 2)
         IN  IF d > i + 2 /\ d < Len(s) /\ At(s, d) = ">" THEN d + 1 ELSE -1
    ELSE -1

\* </e\d+> : any closing tag, not the one the opening tag named
ClosesAt_anyTag(s, k, tag) ==
    /\ HasAt(s, k, <<"<", "/", TagLetter>>)
    /\ LET d == DigitsEnd(s, k + 3)
       IN  d > k + 3 /\ d < Len(s) /\ At(s, d) = ">"

\* </\1> at offset k
ClosesAt(s, k, tag) == HasAt(s, k, <<"<", "/">> \o tag \o <<">">>)

\* (.*) greedy: the last </\1> the payload can reach
RECURSIVE LazyEnd_greedy(_, _, _)
LazyEnd_greedy(s, k, tag) ==
    LET further == IF k < Len(s) /\ Dot(At(s, k))
                   THEN LazyEnd_greedy(s, k + 1, tag) ELSE -1
    IN  IF further # -1 THEN further
        ELSE IF ClosesAt(s, k, tag) THEN k ELSE -1

\* (.*?)</\1> from offset k: the offset of the first </\1> the payload can
\* reach, or -1
RECURSIVE LazyEnd(_, _, _)
LazyEnd(s, k, tag) ==
    IF ClosesAt(s, k, tag) THEN k
    ELSE IF k < Len(s) /\ Dot(At(s, k)) THEN LazyEnd(s, k + 1, tag)
    ELSE -1

NoMatch == [start |-> -1, end |-> -1, tag |-> <<>>, text |-> <<>>]

\* The match object of the pattern anchored at offset i, or NoMatch.
\* start, end: m.span(); tag: m.group(1); text: m.group(2)
MatchAt(s, i) ==
    LET o == OpenEnd(s, i)
    IN  IF o = -1 THEN NoMatch
        ELSE LET tag == Slice(s, i + 1, o - 1)
                 k   == LazyEnd(s, o, tag)
             IN  IF k = -1 THEN NoMatch
                 ELSE [start |-> i, end |-> k + Len(tag) + 3,
                       tag |-> tag, text |-> Slice(s, o, k)]

\* The leftmost match starting at or after offset p, or NoMatch
RECURSIVE Search(_, _)
Search(s, p) ==
    IF p >= Len(s) THEN NoMatch
    ELSE LET m == MatchAt(s, p)
         IN  IF m.start # -1 THEN m ELSE Search(s, p + 1)

\* list(tag_pattern.finditer(s)), from offset p on
RECURSIVE FindIter(_, _)
FindIter(s, p) ==
    LET m == Search(s, p)
    IN  IF m.start = -1 THEN <<>> ELSE <<m>> \o FindIter(s, m.end)

-----------------------------------------------------------------------------
(* The body of parse_errors *)

tag_name_2chars(m) == SubSeq(m.tag, 1, 2)

tag_name(m) == m.tag

error_text_group0(s, m) == Slice(s, m.start, m.end)

error_text(s, m) == m.text

prefix(s, last, m) == Slice(s, last, m.start)

\* last_index left at the start of the match
last_index_spanStart(m) == m.start

last_index_after(m) == m.end

\* error_type.get(tag_name, "unknown")
Lookup_get(et, tag) ==
    IF tag \in DOMAIN et
    THEN [raised |-> FALSE, key |-> <<>>, value |-> et[tag]]
    ELSE [raised |-> FALSE, key |-> <<>>, value |-> "unknown"]

\* error_type[tag_name]: the label, or KeyError(tag_name)
Lookup(et, tag) ==
    IF tag \in DOMAIN et
    THEN [raised |-> FALSE, key |-> <<>>, value |-> et[tag]]
    ELSE [raised |-> TRUE, key |-> tag, value |-> ""]

\* start and end taken in error_sentence
error_info_rawOffsets(m, text, ci, type) ==
    [text |-> text, start |-> m.start, end |-> m.start + Len(text),
     type |-> type]

error_info(m, text, ci, type) ==
    [text |-> text, start |-> ci, end |-> ci + Len(text), type |-> type]

\* clean_index left where the prefix ended
clean_index_noText(ci, text) == ci

clean_index_after(ci, text) == ci + Len(text)

suffix(s, last) == Slice(s, last, Len(s))

-----------------------------------------------------------------------------
(* Inputs *)

MaxPieces == 4

E1  == <<"e", "1">>
E12 == <<"e", "1", "2">>

Pieces ==
    { <<"<", "e", "1", ">">>,
      <<"<", "/", "e", "1", ">">>,
      <<"<", "/", "e", "1", "2", ">">>,
      <<"a">>,
      <<"\n">>,
      <<"<", "f", "1", ">", "a", "<", "/", "f", "1", ">">>,
      <<"<", "e", "1", ">", "a", "<", "/", "e", "1", ">">>,
      <<"<", "e", "1", "2", ">", "b", "<", "/", "e", "1", "2", ">">> }

Sentences ==
    { join(p) : p \in UNION { [1..n -> Pieces] : n \in 0..MaxPieces } }

ErrorTypes ==
    { [t \in {} |-> "X"],
      [t \in {E1} |-> "X"],
      [t \in {E1, E12} |-> IF t = E1 THEN "X" ELSE "Y"],
      [t \in {E1, E12} |-> "X"] }

-----------------------------------------------------------------------------
(* The state machine *)

Init ==
    /\ sentence \in Sentences
    /\ error_type \in ErrorTypes
    /\ pc = "loop"
    /\ pos = 0
    /\ ms = <<>>
    /\ last_index = 0
    /\ clean_index = 0
    /\ clean_parts = <<>>
    /\ errors = <<>>
    /\ result = <<>>
    /\ exc = <<>>

\* One iteration of the for loop whose label lookup succeeds
LoopBody ==
    /\ pc = "loop"
    /\ \E m \in {Search(sentence, pos)} :
           /\ m.start # -1
           /\ \E look \in {Lookup(error_type, tag_name(m))} :
              \E pre \in {prefix(sentence, last_index, m)} :
              \E text \in {error_text(sentence, m)} :
                  /\ ~look.raised
                  /\ clean_parts' = clean_parts \o <<pre, text>>
                  /\ errors' = Append(errors,
                                      error_info(m, text,
                                                 clean_index + Len(pre),
                                                 look.value))
                  /\ clean_index' =
                         clean_index_after(clean_index + Len(pre), text)
                  /\ last_index' = last_index_after(m)
                  /\ pos' = m.end
                  /\ ms' = Append(ms, m)
    /\ UNCHANGED <<sentence, error_type, pc, result, exc>>

\* The iteration whose label lookup raises KeyError: the prefix and the
\* error text are already appended, the call ends without a return value
LoopRaise ==
    /\ pc = "loop"
    /\ \E m \in {Search(sentence, pos)} :
           /\ m.start # -1
           /\ \E look \in {Lookup(error_type, tag_name(m))} :
              \E pre \in {prefix(sentence, last_index, m)} :
              \E text \in {error_text(sentence, m)} :
                  /\ look.raised
                  /\ clean_parts' = clean_parts \o <<pre, text>>
                  /\ clean_index' = clean_index + Len(pre)
                  /\ exc' = look.key
                  /\ ms' = Append(ms, m)
    /\ pc' = "raised"
    /\ UNCHANGED <<sentence, error_type, pos, last_index, errors, result>>

\* finditer is exhausted: the suffix, the join and the return
Return ==
    /\ pc = "loop"
    /\ Search(sentence, pos).start = -1
    /\ clean_parts' = Append(clean_parts, suffix(sentence, last_index))
    /\ result' = <<join(clean_parts'), errors>>
    /\ pc' = "done"
    /\ UNCHANGED <<sentence, error_type, pos, ms, last_index, clean_index,
                   errors, exc>>

Next == LoopBody \/ LoopRaise \/ Return

Spec == Init /\ [][Next]_vars

-----------------------------------------------------------------------------
(* What the claims speak of, stated on the sentence itself rather than by   *)
(* the scan: the offsets of '<', and the substrings <TAG>payload</TAG>      *)
(* given by the offsets of their '<' and of their '</'.                     *)

Done == pc = "done"

clean_text == result[1]

spans == result[2]

Min(S) == CHOOSE x \in S : \A y \in S : x <= y

Lower == {"a", "b", "c", "d", "e", "f", "g", "h", "i", "j", "k", "l", "m",
          "n", "o", "p", "q", "r", "s", "t", "u", "v", "w", "x", "y", "z"}

Lts(s) == {i \in 0..Len(s) - 1 : At(s, i) = "<"}

\* The offset of the first '>' at or after offset j, or -1
RECURSIVE NextGt(_, _)
NextGt(s, j) ==
    IF j >= Len(s) THEN -1
    ELSE IF At(s, j) = ">" THEN j ELSE NextGt(s, j + 1)

CloseTag(t) == <<"<", "/">> \o t \o <<">">>

\* The substrings <TAG>payload</TAG> of s whose two identifiers are the same
\* text, whatever that text is: open is the offset of '<', close the offset
\* of '</', tag the text between the '<' and the next '>'
MarkupAt(s, i) ==
    IF NextGt(s, i + 1) = -1 THEN {}
    ELSE LET t == Slice(s, i + 1, NextGt(s, i + 1))
         IN  {[open |-> i, tag |-> t, close |-> k] :
                  k \in {k \in Lts(s) : /\ k >= i + Len(t) + 2
                                        /\ HasAt(s, k, CloseTag(t))}}

Markup(s) == UNION {MarkupAt(s, i) : i \in Lts(s)}

\* lowercase letter(s) followed by digit(s)
LexTag(t) ==
    \E p \in 1..Len(t) - 1 :
        /\ \A q \in 1..p : t[q] \in Lower
        /\ \A q \in p + 1..Len(t) : t[q] \in Digits

\* the letter e followed by digit(s)
ETag(t) ==
    /\ Len(t) >= 2
    /\ t[1] = "e"
    /\ \A q \in 2..Len(t) : t[q] \in Digits

PayloadStart(c) == c.open + Len(c.tag) + 2

\* The payload holds no </TAG> of its own: close is the first one
FirstClose(s, c) ==
    \A q \in PayloadStart(c)..c.close - 1 : ~HasAt(s, q, CloseTag(c.tag))

NoLineBreak(s, c) ==
    \A q \in PayloadStart(c)..c.close - 1 : At(s, q) # "\n"

\* The substring does not begin inside a marker recognized before it
NotInsideEarlier(c) ==
    \A n \in DOMAIN ms : ~(ms[n].start < c.open /\ c.open < ms[n].end)

\* The substring is the n-th match: its delimiters are the ones removed and
\* the n-th span carries its payload
Recognized(s, c) ==
    \E n \in DOMAIN ms :
        /\ ms[n].start = c.open
        /\ ms[n].end = c.close + Len(c.tag) + 3
        /\ n \in DOMAIN spans
        /\ spans[n].text = Slice(s, PayloadStart(c), c.close)

\* The offsets of the two delimiters of a match
DelimOffsets(m) ==
    (m.start .. m.start + Len(m.tag) + 1)
        \cup (m.end - Len(m.tag) - 3 .. m.end - 1)

AllDelims(matches) ==
    UNION {DelimOffsets(matches[n]) : n \in DOMAIN matches}

\* s from offset i on, without the characters at the offsets of D
RECURSIVE Kept(_, _, _)
Kept(s, D, i) ==
    IF i >= Len(s) THEN <<>>
    ELSE (IF i \in D THEN <<>> ELSE <<At(s, i)>>) \o Kept(s, D, i + 1)

\* gap(n-1) + payload(n) + ... + payload(N) + tail, from the n-th match on
RECURSIVE GapsAndPayloads(_)
GapsAndPayloads(n) ==
    LET from == IF n = 1 THEN 0 ELSE ms[n - 1].end
    IN  IF n > Len(ms) THEN Slice(sentence, from, Len(sentence))
        ELSE Slice(sentence, from, ms[n].start) \o spans[n].text
                 \o GapsAndPayloads(n + 1)

Contains(text, lit) == \E q \in 0..Len(text) : HasAt(text, q, lit)

M1  == <<"<", "e", "1", ">", "a", "<", "/", "e", "1", ">">>

-----------------------------------------------------------------------------
(* The claims *)

\* C1: when the call returns (every recognized marker has a label),
\* clean_text is error_sentence without the characters of the recognized
\* markers' delimiters, every other character kept in order, and it is
\* gap0 + payload1 + gap1 + ... + payloadN + tail, each span's text being
\* its marker's payload.
Thm_C1 ==
    Done =>
        /\ Len(spans) = Len(ms)
        /\ \A n \in DOMAIN ms :
               spans[n].text =
                   Slice(sentence, ms[n].start + Len(ms[n].tag) + 2,
                         ms[n].end - Len(ms[n].tag) - 3)
        /\ clean_text = Kept(sentence, AllDelims(ms), 0)
        /\ clean_text = GapsAndPayloads(1)

\* C1 witness: two markers with payloads, text between them and after them
Wit_C1 ==
    /\ Done
    /\ Len(ms) = 2
    /\ ms[1].text # <<>> /\ ms[2].text # <<>>
    /\ ms[2].start > ms[1].end
    /\ ms[2].end < Len(sentence)

\* C2: every returned span is a range of clean_text:
\* 0 <= start <= end <= len(clean_text), end - start = len(text) and
\* clean_text[start:end] = text.
Thm_C2 ==
    Done =>
        \A n \in DOMAIN spans :
            /\ 0 <= spans[n].start
            /\ spans[n].start <= spans[n].end
            /\ spans[n].end <= Len(clean_text)
            /\ spans[n].end - spans[n].start = Len(spans[n].text)
            /\ Slice(clean_text, spans[n].start, spans[n].end) = spans[n].text

\* C2 witness: text before the first marker, a later marker, an empty payload
Wit_C2 ==
    /\ Done
    /\ Len(spans) >= 2
    /\ ms[1].start > 0
    /\ \E n \in DOMAIN spans : spans[n].start = spans[n].end
    /\ \E n \in DOMAIN spans : spans[n].start < spans[n].end

\* C3: if a recognized marker's identifier has no entry in error_type, the
\* call ends with a KeyError that carries the identifier of the leftmost
\* such marker and returns nothing; it ends that way only then.
Thm_C3 ==
    LET all == FindIter(sentence, 0)
        bad == {n \in DOMAIN all : all[n].tag \notin DOMAIN error_type}
    IN  /\ (pc # "loop" /\ bad # {}) =>
               /\ pc = "raised"
               /\ result = <<>>
               /\ exc = all[Min(bad)].tag
        /\ pc = "raised" => bad # {}
        /\ pc = "loop" => result = <<>> /\ exc = <<>>

\* C3 witness: the KeyError leaves the call after a labelled marker and
\* before another labelled marker
Wit_C3 ==
    /\ pc = "raised"
    /\ Len(ms) >= 2
    /\ LET all == FindIter(sentence, 0)
       IN  \E n \in DOMAIN all :
               n > Len(ms) /\ all[n].tag \in DOMAIN error_type

\* C4 as stated: a substring <TAG>payload</TAG> whose TAG is lowercase
\* letter(s) followed by digit(s), closed by its own identifier, is
\* recognized (here already under the conditions of the amended claim on
\* the payload and on where the substring begins).
Orig_C4 ==
    Done =>
        \A c \in Markup(sentence) :
            ( /\ LexTag(c.tag)
              /\ FirstClose(sentence, c)
              /\ NoLineBreak(sentence, c)
              /\ NotInsideEarlier(c) )
            => Recognized(sentence, c)

\* C4 amended: a substring <TAG>payload</TAG> that does not begin inside an
\* earlier recognized marker, whose TAG is the letter e followed by one or
\* more digits, whose closing identifier is the same, and whose payload holds
\* no line break and no </TAG> of its own, is recognized when the call
\* returns; and no marker with another identifier is ever recognized.
Thm_C4 ==
    /\ Done =>
           \A c \in Markup(sentence) :
               ( /\ ETag(c.tag)
                 /\ FirstClose(sentence, c)
                 /\ NoLineBreak(sentence, c)
                 /\ NotInsideEarlier(c) )
               => Recognized(sentence, c)
    /\ \A n \in DOMAIN ms : ETag(ms[n].tag)

\* C4 witness: a marker with a several-digit e identifier is recognized in a
\* sentence that also holds a marker with another letter
Wit_C4 ==
    /\ Done
    /\ \E n \in DOMAIN ms : Len(ms[n].tag) > 2
    /\ \E c \in Markup(sentence) : LexTag(c.tag) /\ ~ETag(c.tag)

\* C5: a sentence that holds no substring <eN>payload</eN> (same identifier
\* at both ends) is returned unchanged with an empty span list, without an
\* error, whatever error_type holds.
Thm_C5 ==
    ( /\ pc # "loop"
      /\ ~\E c \in Markup(sentence) : ETag(c.tag) )
    => /\ pc = "done"
       /\ result = <<sentence, <<>>>>
       /\ exc = <<>>

\* C5 witness: an opening tag followed by the closing tag of another
\* identifier, and no label at all
Wit_C5 ==
    /\ Done
    /\ DOMAIN error_type = {}
    /\ \E i \in Lts(sentence) : \E k \in Lts(sentence) :
           /\ i < k
           /\ HasAt(sentence, i, <<"<", "e", "1", ">">>)
           /\ HasAt(sentence, k, CloseTag(E12))
    /\ ~\E c \in Markup(sentence) : ETag(c.tag)

\* C6: the spans come in the order of their markers, and from one span's
\* end to the next span's start there are as many characters as between the
\* two markers in error_sentence: never fewer than 0, and 0 when they touch.
Thm_C6 ==
    Done =>
        /\ Len(spans) = Len(ms)
        /\ \A n \in DOMAIN ms : spans[n].text = ms[n].text
        /\ \A n \in 1..Len(ms) - 1 :
               /\ ms[n].end <= ms[n + 1].start
               /\ spans[n + 1].start - spans[n].end
                      = ms[n + 1].start - ms[n].end

\* C6 witness: three markers with payloads, two touching, two apart
Wit_C6 ==
    /\ Done
    /\ Len(ms) = 3
    /\ \A n \in DOMAIN ms : ms[n].text # <<>>
    /\ \E n \in 1..2 : spans[n + 1].start = spans[n].end
    /\ \E n \in 1..2 : spans[n + 1].start > spans[n].end

\* C7: one span per recognized marker, the n-th span's type being
\* error_type[TAG] of the n-th marker.
Thm_C7 ==
    Done =>
        LET all == FindIter(sentence, 0)
        IN  /\ Len(spans) = Len(all)
            /\ \A n \in DOMAIN all :
                   /\ all[n].tag \in DOMAIN error_type
                   /\ spans[n].type = error_type[all[n].tag]

\* C7 witness: two markers of one identifier and a marker of another
\* identifier that has the same label
Wit_C7 ==
    /\ Done
    /\ Len(spans) = 3
    /\ \E n \in 1..3 : \E o \in 1..3 : n # o /\ ms[n].tag = ms[o].tag
    /\ \E n \in 1..3 : \E o \in 1..3 :
           ms[n].tag # ms[o].tag /\ spans[n].type = spans[o].type

Thm_C9 ==
    /\ \A n \in DOMAIN ms :
           /\ HasAt(sentence, ms[n].end - Len(ms[n].tag) - 3,
                    CloseTag(ms[n].tag))
           /\ \A q \in ms[n].start..ms[n].end - Len(ms[n].tag) - 4 :
                  ~HasAt(sentence, q, CloseTag(ms[n].tag))
           /\ ~Contains(ms[n].text, CloseTag(ms[n].tag))
    /\ \A n \in DOMAIN errors :
           ~Contains(errors[n].text, CloseTag(ms[n].tag))
    /\ (Done /\ sentence = M1 \o <<"a">> \o M1) =>
           /\ Len(spans) = 2
           /\ spans[1].text = <<"a">>
           /\ spans[2].text = <<"a">>

\* C9 witness: two markers of one identifier with text between them
Wit_C9 ==
    /\ Done
    /\ sentence = M1 \o <<"a">> \o M1
    /\ Len(spans) = 2
    /\ ms[1].tag = ms[2].tag

\* C10 as stated: a substring <eN>payload</eN> that does not begin inside an
\* earlier marker and whose payload holds no </eN> of its own is recognized
\* whatever else the payload holds, a line break included.
Orig_C10 ==
    Done =>
        \A c \in Markup(sentence) :
            ( /\ ETag(c.tag)
              /\ FirstClose(sentence, c)
              /\ NotInsideEarlier(c) )
            => Recognized(sentence, c)

=============================================================================
